---- MODULE Spec2Model ----
(***************************************************************************)
(* Model of services/launcher/launcher.go: compiling a collection request  *)
(* into a VQLCollectorArgs program and scheduling it on a client.          *)
(*                                                                         *)
(* Callers are processes that run the launcher's functions concurrently.   *)
(* Every call of a collaborator (repository, inventory, datastore) and     *)
(* every access to the process-wide NextFlowIdForTests is one step.        *)
(***************************************************************************)
EXTENDS Integers, Sequences, FiniteSets, TLC

(***************************************************************************)
(* Bounds of the model.                                                    *)
(***************************************************************************)
\* calls started in one behaviour
MaxCalls == 2
\* calls of SetFlowIdForTests in one behaviour
MaxForced == 2
\* largest value of the clock (time.Now().Unix())
MaxTime == 1
\* values rand.Read may produce for the random half of the identifier
MaxRand == 1
\* longest artifact list of a request
MaxArtifacts == 2

Procs == {"p1", "p2"}
\* the caller of the sequential specification
FirstProc == "p1"

(***************************************************************************)
(* Program constants.                                                      *)
(***************************************************************************)
MaxRow == 1000
FLOW_PREFIX == "F."
ProcessVQLResponses == "ProcessVQLResponses"

NoError == "nil"
NoArtifact == "nil"

(***************************************************************************)
(* Small helpers.                                                          *)
(***************************************************************************)
Range(s) == {s[j] : j \in 1..Len(s)}

RECURSIVE SeqsUpTo(_, _)
SeqsUpTo(S, n) ==
  IF n = 0 THEN {<<>>}
  ELSE LET shorter == SeqsUpTo(S, n - 1)
       IN shorter \cup {Append(s, x) : s \in {q \in shorter : Len(q) = n - 1}, x \in S}

(***************************************************************************)
(* The inventory's tools.  A descriptor is what artifacts declare and what *)
(* the inventory stores.                                                   *)
(***************************************************************************)
ToolNames == {"T1", "T2"}

NoTool == [Name |-> "", Hash |-> "", Filename |-> "", Url |-> "",
           ServeLocally |-> FALSE, FilestorePath |-> ""]

Tool(name, hash, url, local) ==
  [Name |-> name, Hash |-> hash, Filename |-> name \o ".exe", Url |-> url,
   ServeLocally |-> local, FilestorePath |-> "fs/" \o name]

(***************************************************************************)
(* The repository: three artifacts.  A and B declare T1 with different     *)
(* descriptors; Custom.A overrides A and is readable by admin only.        *)
(***************************************************************************)
ArtifactNames == {"A", "B", "Custom.A"}
RequestNames == {"A", "B", "X"}
Principals == {"admin", "user"}

Artifact(name) ==
  CASE name = "A" ->
         [Name |-> "A", Plan |-> "planA", Restricted |-> FALSE,
          Params |-> <<[Key |-> "pA", Value |-> "dA"]>>,
          Tools |-> <<Tool("T1", "h1a", "", FALSE)>>]
    [] name = "B" ->
         [Name |-> "B", Plan |-> "planB", Restricted |-> FALSE,
          Params |-> <<>>,
          Tools |-> <<Tool("T1", "h1b", "http://ext/T1", FALSE),
                      Tool("T2", "h2", "http://ext/T2", TRUE)>>]
    [] name = "Custom.A" ->
         [Name |-> "Custom.A", Plan |-> "planCustomA", Restricted |-> TRUE,
          Params |-> <<[Key |-> "pA", Value |-> "dCA"]>>,
          Tools |-> <<Tool("T2", "h2c", "", FALSE)>>]

\* repository.Get: the artifact's name, or NoArtifact
RepositoryGet(name) == IF name \in ArtifactNames THEN name ELSE NoArtifact

\* repository.CheckAccess
CheckAccess(artifact, principal) ==
  IF Artifact(artifact).Restricted /\ principal # "admin"
  THEN "PermissionDenied" ELSE NoError

\* repository.Compile: append the artifact's plan, parameters and tool names
RepositoryCompile(artifact, program) ==
  [program EXCEPT
     !.Query = Append(@, Artifact(artifact).Plan),
     !.Env = @ \o Artifact(artifact).Params,
     !.Tools = @ \o [j \in 1..Len(Artifact(artifact).Tools) |->
                       Artifact(artifact).Tools[j].Name]]

\* artifacts.Obfuscate
Obfuscate(program) == [program EXCEPT !.Obfuscated = TRUE]

(***************************************************************************)
(* Requests, programs and configurations.                                  *)
(***************************************************************************)
ClientIds == {"C1", "C2"}

\* config_obj.Client.ServerUrls
ServerUrlConfigs == {<<>>, <<"https://s1/">>, <<"https://s1/", "https://s2/">>}

NewProgram(ops, timeout) ==
  [OpsPerSecond |-> ops, Timeout |-> timeout, MaxRow |-> MaxRow,
   Query |-> <<>>, Env |-> <<>>, Tools |-> <<>>, Obfuscated |-> FALSE]

\* programs a caller compiled earlier and passes in CompiledCollectorArgs
Cached1 == [NewProgram(5, 60) EXCEPT !.Query = <<"cached1">>, !.Obfuscated = TRUE]
Cached2 == [NewProgram(5, 60) EXCEPT !.Query = <<"cached2">>, !.Obfuscated = TRUE]

Request(client, artifacts, custom, urgent, params, compiled) ==
  [ClientId |-> client, Artifacts |-> artifacts,
   AllowCustomOverrides |-> custom, Urgent |-> urgent,
   OpsPerSecond |-> 5, Timeout |-> 60,
   \* Parameters is a pointer: HasParameters is "Parameters != nil"
   HasParameters |-> params # <<>>, Parameters |-> params,
   CompiledCollectorArgs |-> compiled]

NoRequest == Request("", <<>>, FALSE, FALSE, <<>>, <<>>)

ParameterChoices ==
  {<<>>, <<[Key |-> "pA", Value |-> "new"], [Key |-> "zz", Value |-> "new"]>>,
   <<[Key |-> "zz", Value |-> "new"], [Key |-> "pA", Value |-> "new"],
     [Key |-> "pA", Value |-> "newer"]>>}

\* requests of the direct calls of CompileCollectorArgs
CompileRequests ==
  {Request("C1", a, c, FALSE, ps, <<>>) :
     a \in SeqsUpTo(RequestNames, MaxArtifacts) \ {<<>>},
     c \in BOOLEAN, ps \in ParameterChoices}

\* requests of the calls of ScheduleArtifactCollection: to compile or
\* with cached programs, with and without a client id
ScheduleRequests ==
  {Request("C1", <<"A">>, FALSE, TRUE, <<>>, <<>>),
   Request("C2", <<"B", "X">>, FALSE, FALSE, <<>>, <<>>),
   Request("", <<"A">>, FALSE, FALSE, <<>>, <<>>),
   Request("C1", <<"A">>, FALSE, FALSE, <<>>, <<Cached1, Cached2>>),
   Request("C2", <<"A">>, FALSE, TRUE, <<>>, <<Cached2>>),
   Request("", <<"A">>, FALSE, TRUE, <<>>, <<Cached1>>)}

(***************************************************************************)
(* Pure functions of launcher.go.                                          *)
(***************************************************************************)
\* addOrReplaceParameter whose append of the last line reaches the caller
RECURSIVE addOrReplaceParameterAppending(_, _)
addOrReplaceParameterAppending(param, env) ==
  IF env = <<>> THEN <<param>>
  ELSE IF Head(env).Key = param.Key
       THEN <<[Head(env) EXCEPT !.Value = param.Value]>> \o Tail(env)
       ELSE <<Head(env)>> \o addOrReplaceParameterAppending(param, Tail(env))

\* addOrReplaceParameter: replace the value of the first entry with the
\* parameter's key; the append of the last line goes to the function's own
\* slice header, which the caller never sees.
RECURSIVE addOrReplaceParameter(_, _)
addOrReplaceParameter(param, env) ==
  IF env = <<>> THEN <<>>
  ELSE IF Head(env).Key = param.Key
       THEN <<[Head(env) EXCEPT !.Value = param.Value]>> \o Tail(env)
       ELSE <<Head(env)>> \o addOrReplaceParameter(param, Tail(env))

RECURSIVE ApplyParameters(_, _)
ApplyParameters(params, env) ==
  IF params = <<>> THEN env
  ELSE ApplyParameters(Tail(params), addOrReplaceParameter(Head(params), env))

AddArtifactCollectorArgs(program, request) ==
  IF ~request.HasParameters THEN program
  ELSE [program EXCEPT !.Env = ApplyParameters(request.Parameters, @)]

\* the two entries AddToolDependency appends before it looks at the urls
ToolHashAndFilename(info) ==
  <<[Key |-> "Tool_" \o info.Name \o "_HASH", Value |-> info.Hash],
    [Key |-> "Tool_" \o info.Name \o "_FILENAME", Value |-> info.Filename]>>

\* ToolUrl that takes the descriptor's url whenever it has one
ToolUrlIgnoringServeLocally(urls, info) ==
  IF info.Url # ""
  THEN info.Url
  ELSE urls[1] \o "public/" \o info.FilestorePath

\* where the client downloads the tool from
ToolUrl(urls, info) ==
  IF ~info.ServeLocally /\ info.Url # ""
  THEN info.Url
  ELSE urls[1] \o "public/" \o info.FilestorePath

ToolUrlEntry(urls, info) ==
  [Key |-> "Tool_" \o info.Name \o "_URL", Value |-> ToolUrl(urls, info)]

\* binary.BigEndian.PutUint32
BigEndian32(v) ==
  <<(v \div 16777216) % 256, (v \div 65536) % 256, (v \div 256) % 256, v % 256>>

Base32HexAlphabet ==
  <<"0", "1", "2", "3", "4", "5", "6", "7", "8", "9", "A", "B", "C", "D", "E",
    "F", "G", "H", "I", "J", "K", "L", "M", "N", "O", "P", "Q", "R", "S", "T",
    "U", "V">>

\* bit j (1 = most significant of the first byte) of a byte sequence,
\* 0 past its end
BitAt(bytes, j) ==
  IF j > 8 * Len(bytes) THEN 0
  ELSE (bytes[((j - 1) \div 8) + 1] \div (2 ^ (7 - ((j - 1) % 8)))) % 2

\* the c-th character of base32.HexEncoding.EncodeToString(bytes)
Base32HexChar(bytes, c) ==
  Base32HexAlphabet[1 + 16 * BitAt(bytes, 5 * c - 4) + 8 * BitAt(bytes, 5 * c - 3)
                      + 4 * BitAt(bytes, 5 * c - 2) + 2 * BitAt(bytes, 5 * c - 1)
                      + BitAt(bytes, 5 * c)]

RECURSIVE Base32HexPrefix(_, _)
Base32HexPrefix(bytes, n) ==
  IF n = 0 THEN "" ELSE Base32HexPrefix(bytes, n - 1) \o Base32HexChar(bytes, n)

\* the identifier NewFlowId generates at time t from the random bytes of r
GeneratedFlowId(t, r) ==
  FLOW_PREFIX \o Base32HexPrefix(BigEndian32(t) \o BigEndian32(r), 13)

ForcedIds == {"F.TEST"}

\* paths.NewFlowPathManager(client_id, session_id).Path() and .Task().Path()
FlowPath(client, session) == "/clients/" \o client \o "/collections/" \o session
TaskPath(client, session) == FlowPath(client, session) \o "/task"

(***************************************************************************)
(* State.                                                                  *)
(***************************************************************************)
VARIABLES
  inventory,           \* the inventory service: tool name -> descriptor
  datastore,           \* db.SetSubject: path -> record
  queue,               \* db.QueueMessageForClient: client id -> tasks
  NextFlowIdForTests,  \* the package variable
  now,                 \* time.Now().Unix()
  loc,                 \* every caller's position and local variables
  ncalls,              \* calls started so far
  nforced,             \* calls of SetFlowIdForTests so far
  flowIds              \* history: what the calls of NewFlowId returned

vars == <<inventory, datastore, queue, NextFlowIdForTests, now, loc, ncalls,
          nforced, flowIds>>

NoReturn == [val |-> "", prog |-> <<>>, err |-> NoError, stage |-> "none"]

IdleLoc ==
  [pc |-> "idle", op |-> "none", call |-> 0, req |-> NoRequest,
   principal |-> "", urls |-> <<>>, prog |-> NewProgram(0, 0), i |-> 0,
   art |-> NoArtifact, t |-> 0, args |-> <<>>, sid |-> "", result |-> "",
   tasks |-> <<>>, ret |-> NoReturn, log |-> <<>>,
   \* history: the inventory when the call began, and whether the call
   \* schedules again a request that an earlier call compiled
   inv0 |-> [n \in ToolNames |-> NoTool], reuse |-> FALSE]

\* the inventories a behaviour may start from: empty, or T1 registered by
\* the administrator
AdminT1 == Tool("T1", "hadmin", "http://admin/T1", FALSE)
InitialInventories ==
  {[n \in ToolNames |-> NoTool],
   [n \in ToolNames |-> IF n = "T1" THEN AdminT1 ELSE NoTool]}

Init ==
  /\ inventory \in InitialInventories
  /\ datastore = <<>>
  /\ queue = [c \in ClientIds |-> <<>>]
  /\ NextFlowIdForTests = ""
  /\ now = 0
  /\ loc = [p \in Procs |-> IdleLoc]
  /\ ncalls = 0
  /\ nforced = 0
  /\ flowIds = <<>>

Logged(l, op, arg, ok) ==
  [l EXCEPT !.log = Append(@, [op |-> op, arg |-> arg, ok |-> ok])]

Returned(l, val, prog, err, stage) ==
  [l EXCEPT !.pc = "done",
            !.ret = [val |-> val, prog |-> prog, err |-> err, stage |-> stage]]

(***************************************************************************)
(* The inventory service.                                                  *)
(***************************************************************************)
InventoryKnows(inv, name) == inv[name] # NoTool

\* AddTool keeps the descriptor the inventory already holds
InventoryAddTool(inv, tool) ==
  IF InventoryKnows(inv, tool.Name) THEN inv
  ELSE [inv EXCEPT ![tool.Name] = tool]

\* what a run of EnsureToolsDeclared over the tools of an artifact, and
\* over the artifacts of a request in turn, leaves in the inventory when no
\* call fails for another reason than an unknown tool
RECURSIVE DeclareTools(_, _)
DeclareTools(inv, tools) ==
  IF tools = <<>> THEN inv
  ELSE DeclareTools(IF InventoryKnows(inv, Head(tools).Name) THEN inv
                    ELSE InventoryAddTool(inv, Head(tools)),
                    Tail(tools))

RECURSIVE DeclareArtifacts(_, _)
DeclareArtifacts(inv, artifacts) ==
  IF artifacts = <<>> THEN inv
  ELSE DeclareArtifacts(DeclareTools(inv, Artifact(Head(artifacts)).Tools),
                        Tail(artifacts))

\* ScheduleFromCollectorArgs without the test of the client id
ScheduleFromCollectorArgsUnvalidated(l, args) ==
  [l EXCEPT !.args = args, !.pc = "newid_check"]

(***************************************************************************)
(* ScheduleArtifactCollectionFromCollectorArgs, up to the client id check. *)
(***************************************************************************)
ScheduleFromCollectorArgs(l, args) ==
  IF l.req.ClientId = ""
  THEN Returned(l, "", <<>>, "Client id not provided.", "client_id")
  ELSE [l EXCEPT !.args = args, !.pc = "newid_check"]

(***************************************************************************)
(* The return of CompileCollectorArgs, to its caller.                      *)
(***************************************************************************)
CompileReturn(l, prog, err) ==
  IF l.op = "compile"
  THEN Returned(l, "", prog, err, "compile")
  ELSE IF err # NoError
       THEN Returned(l, "", <<>>, err, "compile")
       ELSE ScheduleFromCollectorArgs(l, l.req.CompiledCollectorArgs \o prog)

\* the loop head of CompileCollectorArgs: the next artifact, or the steps
\* after the loop
NextArtifact(l) == [l EXCEPT !.i = @ + 1, !.t = 0, !.pc = "compile_artifact"]

\* the loop head of EnsureToolsDeclared
NextDeclaredTool(l) ==
  IF l.t < Len(Artifact(l.art).Tools)
  THEN [l EXCEPT !.t = @ + 1, !.pc = "ensure_lookup"]
  ELSE NextArtifact(l)

\* the loop head of getDependentTools
NextDependentTool(l) ==
  IF l.t < Len(l.prog.Tools)
  THEN [l EXCEPT !.t = @ + 1, !.pc = "dependent_tool"]
  ELSE [l EXCEPT !.pc = "obfuscate"]

(***************************************************************************)
(* Calls.                                                                  *)
(***************************************************************************)
BeginCall(p, op, req, principal, urls) ==
  [IdleLoc EXCEPT !.op = op, !.call = ncalls + 1, !.req = req,
                  !.principal = principal, !.urls = urls,
                  !.prog = NewProgram(req.OpsPerSecond, req.Timeout),
                  !.inv0 = inventory]

\* callers are interchangeable: a second caller starts a call only while
\* the first one is in a call
CanCall(p) ==
  /\ loc[p].pc = "idle"
  /\ ncalls < MaxCalls
  /\ p = FirstProc \/ loc[FirstProc].pc # "idle"

\* CompileCollectorArgs, called directly
StartCompile(p) ==
  /\ CanCall(p)
  /\ \E req \in CompileRequests, pr \in Principals, urls \in ServerUrlConfigs :
       loc' = [loc EXCEPT ![p] =
                 NextArtifact(BeginCall(p, "compile", req, pr, urls))]
  /\ ncalls' = ncalls + 1
  /\ UNCHANGED <<inventory, datastore, queue, NextFlowIdForTests, now,
                 nforced, flowIds>>

\* ScheduleEntry that compiles also when the request carries programs
ScheduleEntryAlwaysCompiles(l) == NextArtifact(l)

\* the entry of ScheduleArtifactCollection: compile unless the request
\* carries programs
ScheduleEntry(l) ==
  IF l.req.CompiledCollectorArgs = <<>>
  THEN NextArtifact(l)
  ELSE ScheduleFromCollectorArgs(l, l.req.CompiledCollectorArgs)

StartSchedule(p) ==
  /\ CanCall(p)
  /\ \E req \in ScheduleRequests :
       loc' = [loc EXCEPT ![p] =
                 ScheduleEntry(BeginCall(p, "schedule", req, "admin",
                                         <<"https://s1/">>))]
  /\ ncalls' = ncalls + 1
  /\ UNCHANGED <<inventory, datastore, queue, NextFlowIdForTests, now,
                 nforced, flowIds>>

\* the call of the log compiled its request: Obfuscate, the last step of
\* CompileCollectorArgs, succeeded
Compiled(log) == \E j \in 1..Len(log) : log[j].op = "Obfuscate" /\ log[j].ok

\* the caller schedules the request of the call that returned once more: the
\* same collector_request, as that call left it
StartReschedule(p) ==
  LET l == loc[p]
  IN /\ l.pc = "done" /\ l.op = "schedule"
     /\ ncalls < MaxCalls
     /\ loc' = [loc EXCEPT ![p] =
                  ScheduleEntry(
                    [BeginCall(p, "schedule", l.req, l.principal, l.urls)
                       EXCEPT !.reuse = (l.req.CompiledCollectorArgs = <<>>
                                         /\ Compiled(l.log))])]
     /\ ncalls' = ncalls + 1
     /\ UNCHANGED <<inventory, datastore, queue, NextFlowIdForTests, now,
                    nforced, flowIds>>

\* the caller cancels the context of the call in progress
Cancel(p) ==
  LET l == loc[p]
  IN /\ l.op = "schedule"
     /\ l.pc \notin {"idle", "done"}
     /\ \A j \in 1..Len(l.log) : l.log[j].op # "Cancel"
     /\ loc' = [loc EXCEPT ![p] = Logged(l, "Cancel", "", TRUE)]
     /\ UNCHANGED <<inventory, datastore, queue, NextFlowIdForTests, now,
                    ncalls, nforced, flowIds>>

\* NewFlowId, called directly
StartNewFlowId(p) ==
  /\ CanCall(p)
  /\ loc' = [loc EXCEPT ![p] =
               [BeginCall(p, "newid", NoRequest, "", <<>>)
                  EXCEPT !.pc = "newid_check"]]
  /\ ncalls' = ncalls + 1
  /\ UNCHANGED <<inventory, datastore, queue, NextFlowIdForTests, now,
                 nforced, flowIds>>

\* SetFlowIdForTests
SetFlowIdForTests(p, id) ==
  /\ loc[p].pc = "idle"
  /\ nforced < MaxForced
  /\ NextFlowIdForTests' = id
  /\ nforced' = nforced + 1
  /\ UNCHANGED <<inventory, datastore, queue, now, loc, ncalls, flowIds>>

\* the caller takes the result
FinishCall(p) ==
  /\ loc[p].pc = "done"
  /\ loc' = [loc EXCEPT ![p] = IdleLoc]
  /\ UNCHANGED <<inventory, datastore, queue, NextFlowIdForTests, now,
                 ncalls, nforced, flowIds>>

(***************************************************************************)
(* CompileCollectorArgs.                                                   *)
(***************************************************************************)
\* ResolveArtifact that looks up the plain name first
ResolveArtifactPlainFirst(request, name) ==
  IF RepositoryGet(name) # NoArtifact THEN RepositoryGet(name)
  ELSE IF request.AllowCustomOverrides THEN RepositoryGet("Custom." \o name)
       ELSE NoArtifact

\* the artifact a requested name resolves to: the Custom. variant first
\* when the request allows overrides, then the plain name
ResolveArtifact(request, name) ==
  LET custom == IF request.AllowCustomOverrides
                THEN RepositoryGet("Custom." \o name) ELSE NoArtifact
  IN IF custom # NoArtifact THEN custom ELSE RepositoryGet(name)

\* the calls of repository.Get that resolving the name makes
LoggedGets(l, name) ==
  LET custom == RepositoryGet("Custom." \o name)
      l1 == IF l.req.AllowCustomOverrides
            THEN Logged(l, "Get", "Custom." \o name, custom # NoArtifact)
            ELSE l
  IN IF l.req.AllowCustomOverrides /\ custom # NoArtifact THEN l1
     ELSE Logged(l1, "Get", name, RepositoryGet(name) # NoArtifact)

\* repository.Compile and what follows it for one artifact
MergeArtifact(l, artifact, compiles) ==
  LET l1 == Logged(l, "Compile", artifact, compiles)
  IN IF ~compiles THEN CompileReturn(l1, <<>>, "CompileError")
     ELSE NextDeclaredTool(
            [l1 EXCEPT !.prog = RepositoryCompile(artifact, @),
                       !.art = artifact, !.t = 0])

\* AccessThenMerge without the test of CheckAccess's error
AccessThenMergeUnchecked(l, artifact, compiles) ==
  MergeArtifact(Logged(l, "CheckAccess", artifact,
                       CheckAccess(artifact, l.principal) = NoError),
                artifact, compiles)

\* repository.CheckAccess on the resolved artifact, then the merge
AccessThenMerge(l, artifact, compiles) ==
  LET err == CheckAccess(artifact, l.principal)
      l1 == Logged(l, "CheckAccess", artifact, err = NoError)
  IN IF err # NoError THEN CompileReturn(l1, <<>>, err)
     ELSE MergeArtifact(l1, artifact, compiles)

\* one round of the loop over collector_request.Artifacts, up to the call
\* of EnsureToolsDeclared
CompileOneArtifact(l, compiles) ==
  LET name == l.req.Artifacts[l.i]
      artifact == ResolveArtifact(l.req, name)
      l1 == LoggedGets(l, name)
  IN IF artifact = NoArtifact
     THEN CompileReturn(l1, <<>>, "Unknown artifact " \o name)
     ELSE AccessThenMerge(l1, artifact, compiles)

CompileArtifact(p) ==
  /\ loc[p].pc = "compile_artifact"
  /\ loc[p].i <= Len(loc[p].req.Artifacts)
  /\ \E compiles \in BOOLEAN :
       loc' = [loc EXCEPT ![p] = CompileOneArtifact(loc[p], compiles)]
  /\ UNCHANGED <<inventory, datastore, queue, NextFlowIdForTests, now,
                 ncalls, nforced, flowIds>>

\* EnsureToolsDeclared: GetToolInfo fails when the tool is unknown, and may
\* fail for a tool the inventory knows
EnsureLookup(p) ==
  LET l == loc[p]
      tool == Artifact(l.art).Tools[l.t]
  IN /\ l.pc = "ensure_lookup"
     /\ \E found \in (IF InventoryKnows(inventory, tool.Name)
                      THEN BOOLEAN ELSE {FALSE}) :
          loc' = [loc EXCEPT ![p] =
                    LET l1 == Logged(l, "GetToolInfo", tool.Name, found)
                    IN IF found THEN NextDeclaredTool(l1)
                       ELSE [l1 EXCEPT !.pc = "ensure_add"]]
     /\ UNCHANGED <<inventory, datastore, queue, NextFlowIdForTests, now,
                    ncalls, nforced, flowIds>>

EnsureAdd(p) ==
  LET l == loc[p]
      tool == Artifact(l.art).Tools[l.t]
  IN /\ l.pc = "ensure_add"
     /\ \E ok \in BOOLEAN :
          /\ inventory' = IF ok THEN InventoryAddTool(inventory, tool)
                          ELSE inventory
          /\ loc' = [loc EXCEPT ![p] =
                       LET l1 == Logged(l, "AddTool", tool.Name, ok)
                       IN IF ok THEN NextDeclaredTool(l1)
                          ELSE CompileReturn(l1, <<>>, "AddToolError")]
     /\ UNCHANGED <<datastore, queue, NextFlowIdForTests, now, ncalls,
                    nforced, flowIds>>

\* PopulateArtifactsVQLCollectorArgs, then AddArtifactCollectorArgs
CompilePopulate(p) ==
  LET l == loc[p]
  IN /\ l.pc = "compile_artifact"
     /\ l.i > Len(l.req.Artifacts)
     /\ \E ok \in BOOLEAN :
          loc' = [loc EXCEPT ![p] =
                    LET l1 == Logged(l, "PopulateDependencies", "", ok)
                    IN IF ~ok THEN CompileReturn(l1, <<>>, "PopulateError")
                       ELSE NextDependentTool(
                              [l1 EXCEPT !.prog = AddArtifactCollectorArgs(@, l.req),
                                         !.t = 0])]
     /\ UNCHANGED <<inventory, datastore, queue, NextFlowIdForTests, now,
                    ncalls, nforced, flowIds>>

\* AddToolDependency after its GetToolInfo succeeded
AddToolDependency(l, info) ==
  LET l1 == [l EXCEPT !.prog.Env = @ \o ToolHashAndFilename(info)]
  IN IF Len(l.urls) = 0
     THEN CompileReturn(l1, <<>>, "No server URLs configured!")
     ELSE NextDependentTool(
            [l1 EXCEPT !.prog.Env = Append(@, ToolUrlEntry(l.urls, info))])

\* one round of getDependentTools
DependentTool(p) ==
  LET l == loc[p]
      tool == l.prog.Tools[l.t]
  IN /\ l.pc = "dependent_tool"
     /\ \E found \in (IF InventoryKnows(inventory, tool)
                      THEN BOOLEAN ELSE {FALSE}) :
          loc' = [loc EXCEPT ![p] =
                    LET l1 == Logged(l, "GetToolInfo", tool, found)
                    IN IF ~found THEN CompileReturn(l1, <<>>, "ToolNotFound")
                       ELSE AddToolDependency(l1, inventory[tool])]
     /\ UNCHANGED <<inventory, datastore, queue, NextFlowIdForTests, now,
                    ncalls, nforced, flowIds>>

\* the last two lines of CompileCollectorArgs
ObfuscateReturn(l, ok) ==
  IF ok THEN CompileReturn(l, <<Obfuscate(l.prog)>>, NoError)
  ELSE CompileReturn(l, <<l.prog>>, "ObfuscateError")

CompileObfuscate(p) ==
  /\ loc[p].pc = "obfuscate"
  /\ \E ok \in BOOLEAN :
       loc' = [loc EXCEPT ![p] =
                 ObfuscateReturn(Logged(loc[p], "Obfuscate", "", ok), ok)]
  /\ UNCHANGED <<inventory, datastore, queue, NextFlowIdForTests, now,
                 ncalls, nforced, flowIds>>

(***************************************************************************)
(* NewFlowId.                                                              *)
(***************************************************************************)
FlowIdReturn(l, id) ==
  IF l.op = "newid" THEN Returned(l, id, <<>>, NoError, "none")
  ELSE [l EXCEPT !.sid = id, !.pc = "persist_session"]

\* the test of NextFlowIdForTests; when it is empty, the generated identifier.
\* The clock is read here: it moves on to the time that is read.
NewFlowIdCheck(p) ==
  LET l == loc[p]
  IN /\ l.pc = "newid_check"
     /\ IF NextFlowIdForTests # ""
        THEN /\ loc' = [loc EXCEPT ![p].pc = "newid_read"]
             /\ UNCHANGED <<flowIds, now>>
        ELSE \E t \in now..MaxTime, r \in 0..MaxRand :
               /\ now' = t
               /\ loc' = [loc EXCEPT ![p] = FlowIdReturn(l, GeneratedFlowId(t, r))]
               /\ flowIds' = Append(flowIds, [id |-> GeneratedFlowId(t, r),
                                              forced |-> FALSE, call |-> l.call])
     /\ UNCHANGED <<inventory, datastore, queue, NextFlowIdForTests,
                    ncalls, nforced>>

\* result := NextFlowIdForTests
NewFlowIdRead(p) ==
  /\ loc[p].pc = "newid_read"
  /\ loc' = [loc EXCEPT ![p].result = NextFlowIdForTests, ![p].pc = "newid_clear"]
  /\ UNCHANGED <<inventory, datastore, queue, NextFlowIdForTests, now,
                 ncalls, nforced, flowIds>>

\* NextFlowIdForTests = ""; return result
NewFlowIdClear(p) ==
  LET l == loc[p]
  IN /\ l.pc = "newid_clear"
     /\ NextFlowIdForTests' = ""
     /\ loc' = [loc EXCEPT ![p] = FlowIdReturn(l, l.result)]
     /\ flowIds' = Append(flowIds, [id |-> l.result, forced |-> TRUE,
                                    call |-> l.call])
     /\ UNCHANGED <<inventory, datastore, queue, now, ncalls, nforced>>

(***************************************************************************)
(* ScheduleArtifactCollectionFromCollectorArgs after NewFlowId.            *)
(***************************************************************************)
\* db.SetSubject writes the record at the path, over what is there
SetSubject(store, path, record) == (path :> record) @@ store

\* the record of the collection; Call is history: the call that wrote it
CollectionContext(l) ==
  [SessionId |-> l.sid, CreateTime |-> now * 1000000, State |-> "RUNNING",
   Request |-> l.req, ClientId |-> l.req.ClientId, Call |-> l.call]

\* Task without its SessionId field set
TaskWithoutSessionId(l, k) ==
  [SessionId |-> "", RequestId |-> ProcessVQLResponses,
   VQLClientAction |-> l.args[k], Urgent |-> l.req.Urgent, Call |-> l.call]

\* Task with its Urgent field left at the zero value
TaskNeverUrgent(l, k) ==
  [SessionId |-> l.sid, RequestId |-> ProcessVQLResponses,
   VQLClientAction |-> l.args[k], Urgent |-> FALSE, Call |-> l.call]

\* the k-th task of the call
Task(l, k) ==
  [SessionId |-> l.sid, RequestId |-> ProcessVQLResponses,
   VQLClientAction |-> l.args[k], Urgent |-> l.req.Urgent, Call |-> l.call]

\* the loop head over vql_collector_args
NextTask(l) ==
  IF Len(l.tasks) < Len(l.args) THEN [l EXCEPT !.pc = "enqueue"]
  ELSE [l EXCEPT !.pc = "provenance"]

\* SessionPersisted without the test of SetSubject's error
SessionPersistedUnchecked(l, path, ok) ==
  NextTask(Logged(l, "SetSubject", path, ok))

\* after SetSubject of the collection context returned
SessionPersisted(l, path, ok) ==
  LET l1 == Logged(l, "SetSubject", path, ok)
  IN IF ~ok THEN Returned(l1, "", <<>>, "SetSubjectError", "session")
     ELSE NextTask(l1)

\* datastore.GetDB, then SetSubject of the collection context
PersistSession(p) ==
  LET l == loc[p]
      path == FlowPath(l.req.ClientId, l.sid)
  IN /\ l.pc = "persist_session"
     /\ \/ /\ loc' = [loc EXCEPT ![p] =
                        Returned(Logged(l, "GetDB", "", FALSE),
                                 "", <<>>, "GetDBError", "getdb")]
           /\ UNCHANGED datastore
        \/ \E ok \in BOOLEAN :
             /\ loc' = [loc EXCEPT ![p] =
                          SessionPersisted(Logged(l, "GetDB", "", TRUE), path, ok)]
             /\ datastore' = IF ok
                             THEN SetSubject(datastore, path, CollectionContext(l))
                             ELSE datastore
     /\ UNCHANGED <<inventory, queue, NextFlowIdForTests, now, ncalls,
                    nforced, flowIds>>

\* TaskQueued without the test of QueueMessageForClient's error
TaskQueuedUnchecked(l, task, ok) ==
  NextTask([Logged(l, "QueueMessageForClient", l.req.ClientId, ok)
              EXCEPT !.tasks = Append(@, task)])

\* after QueueMessageForClient of the task returned
TaskQueued(l, task, ok) ==
  LET l1 == Logged(l, "QueueMessageForClient", l.req.ClientId, ok)
  IN IF ~ok THEN Returned(l1, "", <<>>, "QueueError", "enqueue")
     ELSE NextTask([l1 EXCEPT !.tasks = Append(@, task)])

\* one round of the loop over vql_collector_args
EnqueueTask(p) ==
  LET l == loc[p]
      task == Task(l, Len(l.tasks) + 1)
  IN /\ l.pc = "enqueue"
     /\ \E ok \in BOOLEAN :
          /\ loc' = [loc EXCEPT ![p] = TaskQueued(l, task, ok)]
          /\ queue' = IF ok
                      THEN [queue EXCEPT ![l.req.ClientId] = Append(@, task)]
                      ELSE queue
     /\ UNCHANGED <<inventory, datastore, NextFlowIdForTests, now, ncalls,
                    nforced, flowIds>>

\* ProvenanceWritten that returns the session id also with the error
ProvenanceWrittenReturnsId(l, path, ok) ==
  LET l1 == Logged(l, "SetSubject", path, ok)
  IN IF ~ok THEN Returned(l1, l.sid, <<>>, "SetSubjectError", "provenance")
     ELSE Returned(l1, l.sid, <<>>, NoError, "none")

\* after SetSubject of the provenance record returned
ProvenanceWritten(l, path, ok) ==
  LET l1 == Logged(l, "SetSubject", path, ok)
  IN IF ~ok THEN Returned(l1, "", <<>>, "SetSubjectError", "provenance")
     ELSE Returned(l1, l.sid, <<>>, NoError, "none")

\* the provenance record, and the return of the session id
WriteProvenance(p) ==
  LET l == loc[p]
      path == TaskPath(l.req.ClientId, l.sid)
  IN /\ l.pc = "provenance"
     /\ \E ok \in BOOLEAN :
          /\ loc' = [loc EXCEPT ![p] = ProvenanceWritten(l, path, ok)]
          /\ datastore' = IF ok
                          THEN SetSubject(datastore, path,
                                          [Items |-> l.tasks, Call |-> l.call])
                          ELSE datastore
     /\ UNCHANGED <<inventory, queue, NextFlowIdForTests, now, ncalls,
                    nforced, flowIds>>

(***************************************************************************)
(* Specifications.                                                         *)
(***************************************************************************)
\* concurrent callers of ScheduleArtifactCollection, NewFlowId and
\* SetFlowIdForTests
Next ==
  \/ \E p \in Procs : StartSchedule(p)
  \/ \E p \in Procs, id \in ForcedIds : SetFlowIdForTests(p, id)
  \/ \E p \in Procs : CompileArtifact(p)
  \/ \E p \in Procs : EnsureLookup(p)
  \/ \E p \in Procs : EnsureAdd(p)
  \/ \E p \in Procs : CompilePopulate(p)
  \/ \E p \in Procs : DependentTool(p)
  \/ \E p \in Procs : CompileObfuscate(p)
  \/ \E p \in Procs : NewFlowIdCheck(p)
  \/ \E p \in Procs : NewFlowIdRead(p)
  \/ \E p \in Procs : NewFlowIdClear(p)
  \/ \E p \in Procs : PersistSession(p)
  \/ \E p \in Procs : EnqueueTask(p)
  \/ \E p \in Procs : WriteProvenance(p)
  \/ \E p \in Procs : FinishCall(p)

Spec == Init /\ [][Next]_vars

\* concurrent callers of NewFlowId and SetFlowIdForTests
NextFlowId ==
  \/ \E p \in Procs : StartNewFlowId(p)
  \/ \E p \in Procs, id \in ForcedIds : SetFlowIdForTests(p, id)
  \/ \E p \in Procs : NewFlowIdCheck(p)
  \/ \E p \in Procs : NewFlowIdRead(p)
  \/ \E p \in Procs : NewFlowIdClear(p)
  \/ \E p \in Procs : FinishCall(p)

SpecFlowId == Init /\ [][NextFlowId]_vars

\* one caller of CompileCollectorArgs, one call after the other
NextCompile ==
  \/ StartCompile(FirstProc)
  \/ CompileArtifact(FirstProc)
  \/ EnsureLookup(FirstProc)
  \/ EnsureAdd(FirstProc)
  \/ CompilePopulate(FirstProc)
  \/ DependentTool(FirstProc)
  \/ CompileObfuscate(FirstProc)
  \/ FinishCall(FirstProc)

SpecCompile == Init /\ [][NextCompile]_vars

\* one caller of ScheduleArtifactCollection, who may cancel the call's
\* context and may schedule a request again
NextSequential ==
  \/ StartSchedule(FirstProc)
  \/ StartReschedule(FirstProc)
  \/ Cancel(FirstProc)
  \/ \E id \in ForcedIds : SetFlowIdForTests(FirstProc, id)
  \/ CompileArtifact(FirstProc)
  \/ EnsureLookup(FirstProc)
  \/ EnsureAdd(FirstProc)
  \/ CompilePopulate(FirstProc)
  \/ DependentTool(FirstProc)
  \/ CompileObfuscate(FirstProc)
  \/ NewFlowIdCheck(FirstProc)
  \/ NewFlowIdRead(FirstProc)
  \/ NewFlowIdClear(FirstProc)
  \/ PersistSession(FirstProc)
  \/ EnqueueTask(FirstProc)
  \/ WriteProvenance(FirstProc)
  \/ FinishCall(FirstProc)

SpecSequential == Init /\ [][NextSequential]_vars

(***************************************************************************)
(* Properties.                                                             *)
(***************************************************************************)
\* the tasks a call put on a client's queue, and the records it wrote
TasksOf(call, client) == SelectSeq(queue[client], LAMBDA task : task.Call = call)
RecordsOf(call) == {path \in DOMAIN datastore : datastore[path].Call = call}
OpsIn(log) == {log[j].op : j \in 1..Len(log)}
NoTasksOf(call) == \A c \in ClientIds : TasksOf(call, c) = <<>>
IsSession(path) == "State" \in DOMAIN datastore[path]

PersistenceOps == {"GetDB", "SetSubject", "QueueMessageForClient"}
CompilerOps == {"Get", "CheckAccess", "Compile", "PopulateDependencies",
                "GetToolInfo", "AddTool", "Obfuscate"}

\* C1: every task on a client's queue carries the session id of a session
\* record that the datastore holds for that same client; the datastore never
\* loses a record, so the record was there before the task was queued.
C1_QueuedTaskHasSession ==
  \A c \in ClientIds : \A j \in 1..Len(queue[c]) :
    LET path == FlowPath(c, queue[c][j].SessionId)
    IN /\ path \in DOMAIN datastore
       /\ IsSession(path)
       /\ datastore[path].ClientId = c
       /\ datastore[path].SessionId = queue[c][j].SessionId

\* two calls have interleaved their tasks on one client's queue
C1_Witness ==
  \E c \in ClientIds :
    /\ Len(queue[c]) >= 3
    /\ queue[c][1].Call # queue[c][2].Call
    /\ queue[c][1].Call = queue[c][3].Call

\* C2 as stated: a call of ScheduleArtifactCollection that returned an error
\* has left no record in the datastore and no task on a queue.
C2_ErrorLeavesNothing ==
  \A p \in Procs :
    LET l == loc[p]
    IN (l.pc = "done" /\ l.op = "schedule" /\ l.ret.err # NoError)
         => (RecordsOf(l.call) = {} /\ NoTasksOf(l.call))

\* C2 amended: an error from the compilation, the client id check, GetDB or
\* the SetSubject of the session leaves no record and no task of the call; an
\* error from an enqueue or from the provenance write leaves the session
\* record and the tasks the call had queued in place.
C2_ErrorLeavesCompletedSteps ==
  \A p \in Procs :
    LET l == loc[p]
    IN (l.pc = "done" /\ l.op = "schedule" /\ l.ret.err # NoError)
         => /\ l.ret.stage \in {"compile", "client_id", "getdb", "session"}
                 => (RecordsOf(l.call) = {} /\ NoTasksOf(l.call))
            /\ l.ret.stage \in {"enqueue", "provenance"}
                 => /\ FlowPath(l.req.ClientId, l.sid) \in DOMAIN datastore
                    /\ TasksOf(l.call, l.req.ClientId) = l.tasks
                    /\ \A path \in RecordsOf(l.call) : IsSession(path)

\* a call failed in the provenance write after it queued two tasks
C2_Witness ==
  \E p \in Procs :
    /\ loc[p].pc = "done" /\ loc[p].op = "schedule"
    /\ loc[p].ret.stage = "provenance" /\ Len(loc[p].tasks) = 2
    /\ \E q \in Procs : loc[q].pc = "done" /\ loc[q].ret.stage = "session"

\* C3: a failed QueueMessageForClient is the last thing the call does: it
\* returns the error and no session id, the tasks queued before stay on the
\* queue in program order, none is queued for a later program, the session
\* record is in the datastore and the call wrote no provenance record.
C3_EnqueueFailureStops ==
  \A p \in Procs :
    LET l == loc[p]
    IN \A j \in 1..Len(l.log) :
         (l.log[j].op = "QueueMessageForClient" /\ ~l.log[j].ok)
           => /\ j = Len(l.log)
              /\ l.pc = "done"
              /\ l.ret.err = "QueueError" /\ l.ret.val = ""
              /\ Len(l.tasks) < Len(l.args)
              /\ TasksOf(l.call, l.req.ClientId)
                   = [k \in 1..Len(l.tasks) |-> Task(l, k)]
              /\ FlowPath(l.req.ClientId, l.sid) \in DOMAIN datastore
              /\ \A path \in RecordsOf(l.call) : IsSession(path)

\* the enqueue of the second of two programs failed
C3_Witness ==
  \E p \in Procs :
    /\ loc[p].pc = "done" /\ loc[p].ret.stage = "enqueue"
    /\ Len(loc[p].args) = 2 /\ Len(loc[p].tasks) = 1
    /\ Len(queue[loc[p].req.ClientId]) > 1

\* C4: a call of ScheduleArtifactCollection with an empty client id never
\* reaches the datastore: no GetDB, SetSubject or QueueMessageForClient, no
\* record and no task of the call, and it returns an error and no session id.
C4_EmptyClientIdPersistsNothing ==
  \A p \in Procs :
    LET l == loc[p]
    IN (l.op = "schedule" /\ l.req.ClientId = "")
         => /\ OpsIn(l.log) \cap PersistenceOps = {}
            /\ RecordsOf(l.call) = {}
            /\ NoTasksOf(l.call)
            /\ l.pc = "done" => (l.ret.err # NoError /\ l.ret.val = "")

\* two calls without a client id returned, one that compiled and one that
\* carried programs
C4_Witness ==
  \E p, q \in Procs :
    /\ loc[p].pc = "done" /\ loc[p].op = "schedule"
    /\ loc[p].req.ClientId = "" /\ loc[p].req.CompiledCollectorArgs # <<>>
    /\ loc[q].pc = "done" /\ loc[q].op = "schedule"
    /\ loc[q].req.ClientId = "" /\ loc[q].req.CompiledCollectorArgs = <<>>
    /\ loc[q].ret.err = "Client id not provided."

\* C5 as stated: whenever CompileCollectorArgs returns an error, the program
\* it returns is nil.
C5_ErrorReturnsNoProgram ==
  \A p \in Procs :
    (loc[p].pc = "done" /\ loc[p].op = "compile" /\ loc[p].ret.err # NoError)
      => loc[p].ret.prog = <<>>

\* the requested name resolves to no artifact
UnknownName(request, name) ==
  /\ name \notin ArtifactNames
  /\ ~request.AllowCustomOverrides \/ ("Custom." \o name) \notin ArtifactNames

\* C6 as stated: a compilation of a request that names an unknown artifact
\* fails and has made no AddTool call.
C6_UnknownArtifactRegistersNothing ==
  \A p \in Procs :
    LET l == loc[p]
    IN (/\ l.pc = "done" /\ l.op = "compile"
        /\ \E i \in 1..Len(l.req.Artifacts) : UnknownName(l.req, l.req.Artifacts[i]))
         => (l.ret.err # NoError /\ "AddTool" \notin OpsIn(l.log))

\* the artifact the k-th name of the request stands for
ExpectedArtifact(request, k) ==
  IF request.AllowCustomOverrides
     /\ ("Custom." \o request.Artifacts[k]) \in ArtifactNames
  THEN "Custom." \o request.Artifacts[k]
  ELSE request.Artifacts[k]

ToolNamesOf(artifact) ==
  {Artifact(artifact).Tools[j].Name : j \in 1..Len(Artifact(artifact).Tools)}

\* C7: in a compilation, CheckAccess is asked about the artifact the name
\* resolved to; repository.Compile of an artifact directly follows its
\* successful CheckAccess, AddTool is called only for tools of the artifact
\* whose CheckAccess succeeded last, the program holds the plans of exactly
\* these artifacts, and a rejection is the last thing the call does: it
\* returns the error and no program.
C7_AccessCheckedBeforeMerge ==
  \A p \in Procs :
    LET l == loc[p]
        log == l.log
        checks == SelectSeq(log, LAMBDA e : e.op = "CheckAccess")
        merges == SelectSeq(log, LAMBDA e : e.op = "Compile" /\ e.ok)
    IN l.op = "compile" =>
         /\ \A k \in 1..Len(checks) :
              checks[k].arg = ExpectedArtifact(l.req, k)
         /\ \A j \in 1..Len(log) :
              /\ log[j].op = "Compile" =>
                   /\ j > 1
                   /\ log[j - 1].op = "CheckAccess"
                   /\ log[j - 1].ok
                   /\ log[j - 1].arg = log[j].arg
              /\ log[j].op = "AddTool" =>
                   \E i \in 1..(j - 1) :
                     /\ log[i].op = "CheckAccess" /\ log[i].ok
                     /\ log[j].arg \in ToolNamesOf(log[i].arg)
                     /\ \A m \in (i + 1)..(j - 1) : log[m].op # "CheckAccess"
              /\ (log[j].op = "CheckAccess" /\ ~log[j].ok) =>
                   /\ j = Len(log)
                   /\ l.pc = "done"
                   /\ l.ret.err = "PermissionDenied"
                   /\ l.ret.prog = <<>>
         /\ l.prog.Query = [k \in 1..Len(merges) |-> Artifact(merges[k].arg).Plan]

\* the second artifact resolved to its Custom. variant and was rejected,
\* after the first one was merged and its tools were registered
C7_Witness ==
  \E p \in Procs :
    LET l == loc[p]
    IN /\ l.pc = "done" /\ l.op = "compile"
       /\ l.ret.err = "PermissionDenied"
       /\ l.req.Artifacts = <<"B", "A">>
       /\ l.log[Len(l.log)].arg = "Custom.A"
       /\ "AddTool" \in OpsIn(l.log)
       /\ l.prog.Query = <<"planB">>

\* C8 as stated: no more calls of NewFlowId return a forced identifier than
\* SetFlowIdForTests was called, no call returns the empty identifier, and
\* after one SetFlowIdForTests the forced value is empty once it was returned.
C8_ForcedIdConsumedOnce ==
  /\ Cardinality({j \in 1..Len(flowIds) : flowIds[j].id \in ForcedIds}) <= nforced
  /\ \A j \in 1..Len(flowIds) : flowIds[j].id # ""
  /\ (nforced = 1 /\ \E j \in 1..Len(flowIds) : flowIds[j].forced)
       => NextFlowIdForTests = ""

\* C9 as stated: a session record, once written, is never written again.
C9_SessionNeverOverwritten ==
  [][\A path \in DOMAIN datastore :
       IsSession(path) => datastore'[path] = datastore[path]]_vars

\* C10: a call of ScheduleArtifactCollection whose request carries programs
\* calls neither the repository nor the inventory, its tasks carry the
\* request's programs in order, and when it succeeds there is one task for
\* every program.
C10_CachedProgramsSkipCompiler ==
  \A p \in Procs :
    LET l == loc[p]
        cached == l.req.CompiledCollectorArgs
    IN (l.op = "schedule" /\ cached # <<>>)
         => /\ OpsIn(l.log) \cap CompilerOps = {}
            /\ Len(l.tasks) <= Len(cached)
            /\ \A k \in 1..Len(l.tasks) : l.tasks[k].VQLClientAction = cached[k]
            /\ l.req.ClientId \in ClientIds
                 => TasksOf(l.call, l.req.ClientId) = l.tasks
            /\ (l.pc = "done" /\ l.ret.err = NoError)
                 => Len(l.tasks) = Len(cached)

\* a call with two cached programs succeeded
C10_Witness ==
  \E p \in Procs :
    /\ loc[p].pc = "done" /\ loc[p].op = "schedule"
    /\ loc[p].req.CompiledCollectorArgs = <<Cached1, Cached2>>
    /\ loc[p].ret.err = NoError
    /\ Len(TasksOf(loc[p].call, "C1")) = 2


\* the programs a call of ScheduleArtifactCollection has to schedule: the
\* programs the request carries, or the one program it compiled, obfuscated
ProgramsOf(l) ==
  IF l.req.CompiledCollectorArgs # <<>> THEN l.req.CompiledCollectorArgs
  ELSE <<Obfuscate(l.prog)>>

\* the state a successful call of ScheduleArtifactCollection leaves
ScheduledState(l) ==
  LET client == l.req.ClientId
      sid == l.ret.val
      programs == ProgramsOf(l)
      n == Len(programs)
      tasks == TasksOf(l.call, client)
      session == FlowPath(client, sid)
      provenance == TaskPath(client, sid)
      log == l.log
  IN /\ session \in DOMAIN datastore
     /\ datastore[session].State = "RUNNING"
     /\ datastore[session].ClientId = client
     /\ datastore[session].SessionId = sid
     /\ Len(tasks) = n
     /\ \A k \in 1..n :
          /\ tasks[k].SessionId = sid
          /\ tasks[k].RequestId = ProcessVQLResponses
          /\ tasks[k].VQLClientAction = programs[k]
          /\ tasks[k].Urgent = l.req.Urgent
     /\ \A c \in ClientIds \ {client} : TasksOf(l.call, c) = <<>>
     /\ provenance \in DOMAIN datastore
     /\ datastore[provenance].Items = tasks
     /\ Len(log) >= n + 1
     /\ log[Len(log)] = [op |-> "SetSubject", arg |-> provenance, ok |-> TRUE]
     /\ \A k \in 1..n :
          log[Len(log) - k] =
            [op |-> "QueueMessageForClient", arg |-> client, ok |-> TRUE]

\* C11: at the step at which a call of ScheduleArtifactCollection returns
\* without error for n programs, the datastore holds a session record in
\* state RUNNING with the request's client id and the returned session id,
\* the client's queue holds exactly n tasks of this call, one per program in
\* program order, each with that session id, the ProcessVQLResponses tag and
\* the request's urgent flag, and the provenance record, whose write is the
\* last thing the call did after its n enqueues, lists exactly these tasks.
C11_SuccessfulScheduleState ==
  [][\A p \in Procs :
       (/\ loc[p].pc # "done" /\ loc'[p].pc = "done"
        /\ loc'[p].op = "schedule" /\ loc'[p].ret.err = NoError)
         => ScheduledState(loc[p])']_vars

\* a call returned without error after it queued two tasks
C11_Witness ==
  \E p \in Procs :
    LET l == loc[p]
    IN /\ l.pc = "done" /\ l.op = "schedule" /\ l.ret.err = NoError
       /\ l.ret.val # ""
       /\ Len(l.tasks) = 2
       /\ l.tasks = TasksOf(l.call, l.req.ClientId)
       /\ TaskPath(l.req.ClientId, l.ret.val) \in DOMAIN datastore

\* the successful calls of an operation on an argument in a call's log
Succeeded(log, op, arg) ==
  SelectSeq(log, LAMBDA e : e.op = op /\ e.arg = arg /\ e.ok)

\* C20: a call of ScheduleArtifactCollection that returned a non-empty
\* session id returned no error and had written the session record, queued
\* one task per program and written the provenance record; a call that
\* returned an error returned the empty id, also when it had persisted the
\* session or queued tasks under the id it generated.
C20_SessionIdOnlyOnSuccess ==
  \A p \in Procs :
    LET l == loc[p]
        client == l.req.ClientId
    IN (l.pc = "done" /\ l.op = "schedule") =>
         /\ l.ret.err # NoError => l.ret.val = ""
         /\ l.ret.val # "" =>
              /\ l.ret.err = NoError
              /\ l.ret.val = l.sid
              /\ Succeeded(l.log, "SetSubject", FlowPath(client, l.sid)) # <<>>
              /\ Len(Succeeded(l.log, "QueueMessageForClient", client))
                   = Len(ProgramsOf(l))
              /\ Succeeded(l.log, "SetSubject", TaskPath(client, l.sid)) # <<>>

\* a call failed in the provenance write: it returned the empty id, and the
\* session and a task are stored under the id it generated
C20_Witness ==
  \E p \in Procs :
    LET l == loc[p]
    IN /\ l.pc = "done" /\ l.op = "schedule"
       /\ l.ret.stage = "provenance" /\ l.ret.err # NoError
       /\ l.ret.val = "" /\ l.sid # ""
       /\ FlowPath(l.req.ClientId, l.sid) \in DOMAIN datastore
       /\ TasksOf(l.call, l.req.ClientId) # <<>>
       /\ TasksOf(l.call, l.req.ClientId)[1].SessionId = l.sid

\* the entries of an environment with the given key
EntriesOf(env, key) == SelectSeq(env, LAMBDA e : e.Key = key)

\* C12 as stated: the program a compilation returns without error has, for
\* every tool in its tool list, exactly one HASH, one FILENAME and one URL
\* entry in its environment, so that no tool key occurs twice, also when the
\* tool list names a tool more than once.
C12_OneTriplePerTool ==
  \A p \in Procs :
    LET l == loc[p]
    IN (l.pc = "done" /\ l.op = "compile" /\ l.ret.err = NoError) =>
         \A tool \in Range(l.ret.prog[1].Tools) :
           \A suffix \in {"_HASH", "_FILENAME", "_URL"} :
             Len(EntriesOf(l.ret.prog[1].Env, "Tool_" \o tool \o suffix)) = 1

\* C13 as stated: EnsureToolsDeclared calls AddTool only for a tool name the
\* inventory holds no descriptor for; a lookup that fails for a tool the
\* inventory knows leads to no AddTool call.
C13_AddToolOnlyWhenUnknown ==
  [][\A p \in Procs :
       LET log == loc'[p].log
       IN (/\ loc[p].pc = "ensure_add"
           /\ Len(log) = Len(loc[p].log) + 1
           /\ log[Len(log)].op = "AddTool")
            => ~InventoryKnows(inventory, log[Len(log)].arg)]_vars

Keys(env) == [j \in 1..Len(env) |-> env[j].Key]

\* the value an override leaves at position j of the environment: the one of
\* the request's last parameter with the entry's key when the entry is the
\* first one with that key, the old value otherwise
OverriddenValue(env, params, j) ==
  LET matches == {k \in 1..Len(params) : params[k].Key = env[j].Key}
      first == \A i \in 1..(j - 1) : env[i].Key # env[j].Key
  IN IF matches # {} /\ first
     THEN params[CHOOSE k \in matches : \A m \in matches : m <= k].Value
     ELSE env[j].Value

\* C14: the step of a compilation that applies the request's parameters
\* (AddArtifactCollectorArgs) leaves the environment's length and its
\* sequence of keys as they were: a parameter whose key is there replaces
\* the value of the first entry with that key in place, and a parameter
\* whose key is absent changes nothing.
C14_OverridesKeepKeys ==
  [][\A p \in Procs :
       (/\ loc[p].pc = "compile_artifact"
        /\ loc'[p].pc \in {"dependent_tool", "obfuscate"})
         => LET env == loc[p].prog.Env
                after == loc'[p].prog.Env
                params == loc[p].req.Parameters
            IN /\ Len(after) = Len(env)
               /\ Keys(after) = Keys(env)
               /\ \A j \in 1..Len(env) :
                    after[j].Value = OverriddenValue(env, params, j)]_vars

\* parameters pA and zz were applied to an environment with two entries of
\* key pA: the first has the new value, the second the old one, and no
\* entry of key zz was added
C14_Witness ==
  \E p \in Procs :
    LET l == loc[p]
    IN /\ l.op = "compile" /\ l.pc = "obfuscate"
       /\ l.req.HasParameters
       /\ Len(l.req.Parameters) = 3
       /\ l.req.Artifacts = <<"A", "A">>
       /\ l.prog.Env[1] = [Key |-> "pA", Value |-> "newer"]
       /\ l.prog.Env[2] = [Key |-> "pA", Value |-> "dA"]
       /\ EntriesOf(l.prog.Env, "zz") = <<>>

\* the artifacts the names of a request stand for
ResolvedArtifacts(request) ==
  [k \in 1..Len(request.Artifacts) |-> ExpectedArtifact(request, k)]

Reverse(seq) == [j \in 1..Len(seq) |-> seq[Len(seq) + 1 - j]]

\* a compilation returned without error: what it left in the inventory is
\* what EnsureToolsDeclared makes of the inventory the call began with
InventoryAfterCompile ==
  \A p \in Procs :
    LET l == loc[p]
    IN (l.pc = "done" /\ l.op = "compile" /\ l.ret.err = NoError) =>
         inventory = DeclareArtifacts(l.inv0, ResolvedArtifacts(l.req))

\* compiling the request a second time leaves the inventory as it is
RegistrationIdempotent ==
  \A p \in Procs :
    LET l == loc[p]
    IN (l.pc = "done" /\ l.op = "compile" /\ l.ret.err = NoError) =>
         DeclareArtifacts(inventory, ResolvedArtifacts(l.req)) = inventory

\* C15 as stated: after a compilation that returned without error, the
\* registrations of a second compilation of the request leave the inventory
\* as it is, and the registrations of the request with its artifacts in the
\* reverse order, made on the inventory the call began with, lead to the
\* same inventory, also when two artifacts declare different descriptors
\* for one tool name.
C15_RegistrationOrderIndependent ==
  \A p \in Procs :
    LET l == loc[p]
        artifacts == ResolvedArtifacts(l.req)
    IN (l.pc = "done" /\ l.op = "compile" /\ l.ret.err = NoError) =>
         /\ DeclareArtifacts(inventory, artifacts) = inventory
         /\ DeclareArtifacts(l.inv0, Reverse(artifacts)) = inventory

\* C17: in a compilation, the k-th plan of the program is the plan of
\* Custom.X for the k-th requested name X when the request allows overrides
\* and Custom.X exists, and the plan of X otherwise; the compilation returns
\* "Unknown artifact X" only when X does not exist and Custom.X does not
\* exist or overrides are not allowed, and a compilation that returned
\* without error has one plan per requested name.
C17_CustomOverridePrecedence ==
  \A p \in Procs :
    LET l == loc[p]
        names == l.req.Artifacts
    IN l.op = "compile" =>
         /\ Len(l.prog.Query) <= Len(names)
         /\ \A k \in 1..Len(l.prog.Query) :
              LET custom == "Custom." \o names[k]
              IN IF l.req.AllowCustomOverrides /\ custom \in ArtifactNames
                 THEN l.prog.Query[k] = Artifact(custom).Plan
                 ELSE /\ names[k] \in ArtifactNames
                      /\ l.prog.Query[k] = Artifact(names[k]).Plan
         /\ \A k \in 1..Len(names) :
              (l.pc = "done" /\ l.ret.err = "Unknown artifact " \o names[k]) =>
                /\ names[k] \notin ArtifactNames
                /\ ~l.req.AllowCustomOverrides
                     \/ ("Custom." \o names[k]) \notin ArtifactNames
         /\ (l.pc = "done" /\ l.ret.err = NoError) =>
              Len(l.prog.Query) = Len(names)

\* a compilation with overrides allowed returned the plan of Custom.A for
\* the name A, which exists too, and the plan of B, which has no override
C17_Witness ==
  \E p \in Procs :
    LET l == loc[p]
    IN /\ l.pc = "done" /\ l.op = "compile" /\ l.ret.err = NoError
       /\ l.req.AllowCustomOverrides
       /\ l.req.Artifacts = <<"A", "B">>
       /\ l.ret.prog[1].Query = <<"planCustomA", "planB">>

\* C18: a round of getDependentTools that found the tool's descriptor, with
\* at least one server url configured, appends the HASH and FILENAME entries
\* and then a URL entry whose value is the descriptor's url exactly when the
\* descriptor is not served locally and has a non-empty url, and otherwise
\* the first server url followed by "public/" and the filestore path.
C18_ToolUrlSelection ==
  [][\A p \in Procs :
       (/\ loc[p].pc = "dependent_tool"
        /\ Len(loc[p].urls) > 0
        /\ loc'[p].log[Len(loc'[p].log)].ok)
         => LET info == inventory[loc[p].prog.Tools[loc[p].t]]
                env == loc'[p].prog.Env
                n == Len(loc[p].prog.Env)
            IN /\ Len(env) = n + 3
               /\ env[n + 3].Key = "Tool_" \o info.Name \o "_URL"
               /\ (~info.ServeLocally /\ info.Url # "")
                    => env[n + 3].Value = info.Url
               /\ (info.ServeLocally \/ info.Url = "")
                    => env[n + 3].Value
                         = loc[p].urls[1] \o "public/" \o info.FilestorePath]_vars

\* a program has the URL entries of a tool that is served locally though it
\* has a url, of a tool with a url that is not served locally, both with two
\* server urls configured
C18_Witness ==
  \E p \in Procs :
    LET l == loc[p]
    IN /\ l.op = "compile" /\ l.pc = "obfuscate"
       /\ Len(l.urls) = 2
       /\ EntriesOf(l.prog.Env, "Tool_T2_URL")
            = <<[Key |-> "Tool_T2_URL", Value |-> "https://s1/public/fs/T2"]>>
       /\ inventory["T2"].Url = "http://ext/T2"
       /\ EntriesOf(l.prog.Env, "Tool_T1_URL")
            = <<[Key |-> "Tool_T1_URL", Value |-> "http://ext/T1"]>>

\* C16 as stated: after the context of a call of ScheduleArtifactCollection
\* was cancelled, the call makes no successful SetSubject of the session,
\* QueueMessageForClient or SetSubject of the provenance record, and it does
\* not return without error.
C16_CancelStopsWrites ==
  \A p \in Procs :
    LET l == loc[p]
        log == l.log
    IN l.op = "schedule" =>
         \A i \in 1..Len(log) :
           log[i].op = "Cancel" =>
             /\ \A j \in (i + 1)..Len(log) :
                  ~(log[j].op \in {"SetSubject", "QueueMessageForClient"}
                    /\ log[j].ok)
             /\ l.pc = "done" => l.ret.err # NoError

\* C19 as stated: a call of ScheduleArtifactCollection for a request that
\* an earlier call compiled, the request as that call left it, makes no call
\* to the repository or the inventory and compiles nothing.
C19_RescheduleReusesCompilation ==
  \A p \in Procs :
    LET l == loc[p]
    IN (l.op = "schedule" /\ l.reuse) => OpsIn(l.log) \cap CompilerOps = {}

====
